---- MODULE Spec2Model ----
(***************************************************************************)
(* The comment-threading, like-toggle and notification routes of           *)
(* src/server.js as a state machine.  The store is the five tables created *)
(* by init(); every request handler is a chain of store statements, one    *)
(* action per awaited pool.query together with the synchronous code that   *)
(* follows it up to the next await.  Handlers of different requests        *)
(* interleave between their statements.                                    *)
(***************************************************************************)
EXTENDS Integers, Sequences, FiniteSets, TLC

\* ------------------------------------------------------------------ bounds
MaxProcs == 2       \* requests in flight at the same time
MaxPosts == 2       \* values the posts id sequence hands out
MaxComments == 3    \* values the comments id sequence hands out

Procs == 1..MaxProcs
PostIds == 1..MaxPosts
CommentIds == 1..MaxComments

\* ------------------------------------------------------------------ values
\* null / undefined of an id-typed value (a SERIAL id is never below 1).
Null == -1
\* User ids are opaque strings; the empty string is the one falsy string.
Users == {"u1", "u2"}
NoUser == ""
UserInputs == Users \cup {NoUser}
\* parent_id of a request body: null, the falsy integer 0, or a comment id.
ParentInputs == {Null, 0} \cup CommentIds
\* postid of a request body: a post id, or missing.
PostInputs == {Null} \cup PostIds

\* JavaScript truthiness of an id-typed value and of a string.
TruthyId(v) == v # Null /\ v # 0
TruthyStr(s) == s # NoUser

Range(s) == {s[i] : i \in DOMAIN s}

\* A row that is not there (rows[0] of an empty result).
NoRow == [id |-> Null]

VARIABLES
    posts,          \* posts table: id -> [user_id, likes]
    postSeq,        \* posts_id_seq: the last id handed out
    comments,       \* comments table: id -> [postid, userid, parent_id, createdat]
    commentSeq,     \* comments_id_seq: the last id handed out
    comment_likes,  \* comment_likes table: set of [comment_id, userid]
    notifications,  \* notifications table, in id order
    reqs,           \* per request slot: the handler's position and locals
    \* History of the like toggles (written by the toggle handlers only, read
    \* by no handler):
    winP,           \* per post id: the current run of serial toggles by one user
    winC,           \* per comment id: the same for comment likes
    epP,            \* per post id: the current episode of overlapping toggles
    epC             \* per comment id: the same for comment likes

store == <<posts, postSeq, comments, commentSeq, comment_likes, notifications>>
history == <<winP, winC, epP, epC>>
vars == <<posts, postSeq, comments, commentSeq, comment_likes, notifications, reqs,
          winP, winC, epP, epC>>

\* ------------------------------------------------------------ request slots
\* History local of a fetch: which comments table its first SELECT saw (ids
\* are never handed out twice and rows never change, so the sequence value
\* and the stored ids identify the table's content).
NoSnapshot == [seq |-> Null, ids |-> {}]

Idle ==
    [op |-> "idle", pc |-> "idle", id |-> Null, userid |-> NoUser,
     postid |-> Null, parent_id |-> Null, likes |-> <<>>, exists |-> FALSE,
     comment |-> NoRow, notifyUserId |-> NoUser, type |-> "comment",
     found |-> FALSE, author |-> NoUser, deleted |-> {},
     qlimit |-> <<>>, qoffset |-> <<>>, limit |-> 0, offset |-> 0,
     top |-> <<>>, rows |-> <<>>, seen |-> NoSnapshot,
     status |-> 0, body |-> NoRow, err |-> "none"]

\* res.json(row): status 200 with the row as body.
Json(r, row) == [r EXCEPT !.pc = "done", !.status = 200, !.body = row]
\* res.sendStatus(code) / res.status(code).send(text).
Status(r, code) == [r EXCEPT !.pc = "done", !.status = code]
\* An awaited query rejected: the async handler throws and sends nothing.
Throw(r, why) == [r EXCEPT !.pc = "error", !.err = why]

\* A request is in flight between its first statement and its answer.
InFlight(r) == r.pc \notin {"idle", "done", "error"}
\* A new request takes the first free slot (slots are interchangeable).
Free(p) == reqs[p].pc = "idle" /\ \A q \in Procs : q < p => reqs[q].pc # "idle"

\* No run of toggles recorded; no episode recorded.
NoWin == [owner |-> 0, user |-> NoUser, before |-> {}, n |-> 0, ret |-> {}]
NoEpisode == [base |-> {}, users |-> {}, n |-> 0, serial |-> {},
              sameUser |-> FALSE, absent |-> FALSE]

Init ==
    /\ winP = [i \in PostIds |-> NoWin]
    /\ winC = [i \in CommentIds |-> NoWin]
    /\ epP = [i \in PostIds |-> NoEpisode]
    /\ epC = [i \in CommentIds |-> NoEpisode]
    /\ posts = <<>>
    /\ postSeq = 0
    /\ comments = <<>>
    /\ commentSeq = 0
    /\ comment_likes = {}
    /\ notifications = <<>>
    /\ reqs = [p \in Procs |-> Idle]

\* The client is answered (or the handler has thrown): the slot is free again.
Finish(p) ==
    /\ reqs[p].pc \in {"done", "error"}
    /\ reqs' = [reqs EXCEPT ![p] = Idle]
    /\ UNCHANGED store

\* ------------------------------------------------------------------- posts
\* Restriction of a table (a function on its ids) to the ids in keep.
Keep(table, keep) == [i \in keep |-> table[i]]
Insert(table, i, row) == [j \in DOMAIN table \cup {i} |-> IF j = i THEN row ELSE table[j]]

LowestUnusedId(seq, table) ==
    CHOOSE i \in 1..(seq + 1) : i \notin DOMAIN table /\ \A j \in 1..(i - 1) : j \in DOMAIN table

\* id SERIAL: nextval of the table's sequence, never handed out twice.
NextVal(seq, table) == seq + 1

\* POST /api/post: INSERT INTO posts ... RETURNING *; likes DEFAULT '{}'.
CreatePost(p, user_id) ==
    /\ Free(p)
    /\ postSeq < MaxPosts
    /\ LET id == NextVal(postSeq, posts)
           row == [user_id |-> user_id, likes |-> <<>>]
       IN /\ postSeq' = id
          /\ posts' = Insert(posts, id, row)
          /\ reqs' = [reqs EXCEPT ![p] =
                 Json([Idle EXCEPT !.op = "createPost"],
                      [id |-> id, user_id |-> user_id, likes |-> <<>>])]
    /\ UNCHANGED <<comments, commentSeq, comment_likes, notifications>>

CascadeNone(gone) == gone

\* DELETE FROM posts WHERE id = $1, with the ON DELETE CASCADE of
\* comments.postid, comments.parent_id and comment_likes.comment_id.
RECURSIVE Cascade(_)
Cascade(gone) ==
    LET more == {c \in DOMAIN comments : comments[c].parent_id \in gone} \ gone
    IN IF more = {} THEN gone ELSE Cascade(gone \cup more)

RemoveComments(gone) ==
    /\ comments' = Keep(comments, DOMAIN comments \ gone)
    /\ comment_likes' = {l \in comment_likes : l.comment_id \notin gone}

DeletePost(p, id) ==
    /\ Free(p)
    /\ posts' = Keep(posts, DOMAIN posts \ {id})
    /\ RemoveComments(Cascade({c \in DOMAIN comments : comments[c].postid = id}))
    /\ reqs' = [reqs EXCEPT ![p] =
           Status([Idle EXCEPT !.op = "deletePost"], 204)]
    /\ UNCHANGED <<postSeq, commentSeq, notifications>>

\* ----------------------------------------------------------------- comments
\* parent_id || null
OrNull(parent_id) == IF TruthyId(parent_id) THEN parent_id ELSE Null

\* The foreign keys of a comments row: postid REFERENCES posts(id),
\* parent_id REFERENCES comments(id); a NULL column references nothing.
CommentFkOk(postid, parent) ==
    /\ postid = Null \/ postid \in DOMAIN posts
    /\ parent = Null \/ parent \in DOMAIN comments

\* createdat DEFAULT CURRENT_TIMESTAMP: the clock never runs backwards, and
\* an insert that falls in the same tick as the previous one gets the same
\* value.  Only the order of the values matters: the insert that draws id k
\* is stamped k - 1, the tick of the insert before it, or k.
Timestamps(seq) == {seq, seq + 1}

\* POST /api/comments, first statement: INSERT INTO comments ... RETURNING *.
\* nextval() is taken before the constraints are checked, so a rejected
\* insert still uses up an id.  at is the value of CURRENT_TIMESTAMP.
CommentInsertAt(p, postid, userid, parent_id, at) ==
    /\ Free(p)
    /\ commentSeq < MaxComments
    /\ at \in Timestamps(commentSeq)
    /\ LET id == NextVal(commentSeq, comments)
           parent == OrNull(parent_id)
           r == [Idle EXCEPT !.op = "createComment", !.postid = postid,
                             !.userid = userid, !.parent_id = parent_id]
       IN /\ commentSeq' = id
          /\ IF CommentFkOk(postid, parent)
             THEN /\ comments' = Insert(comments, id,
                        [postid |-> postid, userid |-> userid, parent_id |-> parent,
                         createdat |-> at])
                  /\ reqs' = [reqs EXCEPT ![p] =
                         [r EXCEPT !.pc = "lookup",
                                   !.comment = [id |-> id, postid |-> postid,
                                                userid |-> userid, parent_id |-> parent,
                                                createdat |-> at]]]
             ELSE /\ comments' = comments
                  /\ reqs' = [reqs EXCEPT ![p] =
                         Throw([Idle EXCEPT !.op = "createComment"], "foreign_key")]
    /\ UNCHANGED <<posts, postSeq, comment_likes, notifications>>

\* The same request when no other insert falls in its clock tick.
CommentInsert(p, postid, userid, parent_id) ==
    CommentInsertAt(p, postid, userid, parent_id, commentSeq + 1)

LookupPostOnly(r) ==
    IF r.postid \in DOMAIN posts
    THEN [found |-> TRUE, author |-> posts[r.postid].user_id]
    ELSE [found |-> FALSE, author |-> NoUser]

\* "Find who should receive the notification": the SELECT of the parent
\* comment's userid or of the post's user_id, and the tests on its result.
\* found/author are the result of that SELECT (rows.length, rows[0]).
LookupRows(r) ==
    IF TruthyId(r.parent_id)
    THEN IF r.parent_id \in DOMAIN comments
         THEN [found |-> TRUE, author |-> comments[r.parent_id].userid]
         ELSE [found |-> FALSE, author |-> NoUser]
    ELSE IF r.postid \in DOMAIN posts
         THEN [found |-> TRUE, author |-> posts[r.postid].user_id]
         ELSE [found |-> FALSE, author |-> NoUser]

RecipientNoSelfCheck(r, rows) ==
    IF rows.found
    THEN [notifyUserId |-> rows.author,
          type |-> IF TruthyId(r.parent_id) THEN "reply" ELSE "comment"]
    ELSE [notifyUserId |-> NoUser, type |-> "comment"]

RecipientInverted(r, rows) ==
    IF rows.found /\ rows.author = r.userid
    THEN [notifyUserId |-> rows.author,
          type |-> IF TruthyId(r.parent_id) THEN "reply" ELSE "comment"]
    ELSE [notifyUserId |-> NoUser, type |-> "comment"]

\* notifyUserId and type after the if/else of lines 150-164.
Recipient(r, rows) ==
    IF rows.found /\ rows.author # r.userid
    THEN [notifyUserId |-> rows.author,
          type |-> IF TruthyId(r.parent_id) THEN "reply" ELSE "comment"]
    ELSE [notifyUserId |-> NoUser, type |-> "comment"]

CommentLookup(p) ==
    /\ reqs[p].op = "createComment" /\ reqs[p].pc = "lookup"
    /\ LET r == reqs[p]
           rows == LookupRows(r)
           to == Recipient(r, rows)
           r2 == [r EXCEPT !.found = rows.found, !.author = rows.author,
                           !.notifyUserId = to.notifyUserId, !.type = to.type]
       IN reqs' = [reqs EXCEPT ![p] =
              IF TruthyStr(to.notifyUserId)
              THEN [r2 EXCEPT !.pc = "notify"]
              ELSE Json(r2, r.comment)]
    /\ UNCHANGED store

\* The NOT NULL columns of a notifications row (user_id is truthy and
\* comment_id is the new id by then; post_id is the request's postid).
NotificationOk(r) == r.postid # Null

\* INSERT INTO notifications (user_id, type, post_id, comment_id), then
\* res.json(comment).  A row the table rejects makes the await throw.  at is
\* the value of created_at (DEFAULT CURRENT_TIMESTAMP), stamped like the
\* createdat of a comment.
CommentNotifyAt(p, at) ==
    /\ reqs[p].op = "createComment" /\ reqs[p].pc = "notify"
    /\ at \in Timestamps(Len(notifications))
    /\ LET r == reqs[p]
       IN IF NotificationOk(r)
          THEN /\ notifications' = Append(notifications,
                      [user_id |-> r.notifyUserId, type |-> r.type,
                       post_id |-> r.postid, comment_id |-> r.comment.id,
                       created_at |-> at])
               /\ reqs' = [reqs EXCEPT ![p] = Json(r, r.comment)]
          ELSE /\ notifications' = notifications
               /\ reqs' = [reqs EXCEPT ![p] = Throw(r, "notification")]
    /\ UNCHANGED <<posts, postSeq, comments, commentSeq, comment_likes>>

\* The same statement when no other notification falls in its clock tick.
CommentNotify(p) == CommentNotifyAt(p, Len(notifications) + 1)

\* The INSERT INTO notifications is rejected by the store: the await throws
\* out of the handler, which has no try/catch, before res.json(comment).
CommentNotifyFails(p) ==
    /\ reqs[p].op = "createComment" /\ reqs[p].pc = "notify"
    /\ reqs' = [reqs EXCEPT ![p] = Throw(reqs[p], "notification")]
    /\ UNCHANGED store

RECURSIVE ToDeleteUpwards(_)
ToDeleteUpwards(level) ==
    IF level = {} THEN {}
    ELSE level \cup ToDeleteUpwards({comments[c].parent_id : c \in level}
                                        \cap DOMAIN comments)

\* DELETE /api/comments/:id: the recursive CTE to_delete, evaluated level by
\* level from the row with id = $1, then DELETE ... WHERE id IN to_delete
\* (with the cascades of the foreign keys), as one statement.
RECURSIVE ToDelete(_)
ToDelete(level) ==
    IF level = {} THEN {}
    ELSE level \cup ToDelete({c \in DOMAIN comments : comments[c].parent_id \in level})

DeleteCommentStatusNotFound(deleted) == IF deleted = {} THEN 404 ELSE 204

\* res.sendStatus(204), whatever the statement deleted.
DeleteCommentStatus(deleted) == 204

DeleteComment(p, id) ==
    /\ Free(p)
    /\ LET to_delete == ToDelete({c \in DOMAIN comments : c = id})
       IN /\ RemoveComments(Cascade(to_delete))
          /\ reqs' = [reqs EXCEPT ![p] =
                 Status([Idle EXCEPT !.op = "deleteComment", !.id = id,
                                     !.deleted = to_delete],
                        DeleteCommentStatus(to_delete))]
    /\ UNCHANGED <<posts, postSeq, commentSeq, notifications>>

\* -------------------------------------------------------------------- likes
TogglePushOnly(likes, userId) == Append(likes, userId)

\* The toggle of lines 125-130: includes / filter / push on the array.
Toggle(likes, userId) ==
    IF userId \in Range(likes)
    THEN SelectSeq(likes, LAMBDA uid : uid # userId)
    ELSE Append(likes, userId)

\* PUT /api/posts/:id/like, first statement: SELECT likes FROM posts, the
\* 404 on no row, and the toggle computed on the array that was read.
PostLikeRead(p, id, userId) ==
    /\ Free(p)
    /\ LET r == [Idle EXCEPT !.op = "postLike", !.id = id, !.userid = userId]
       IN reqs' = [reqs EXCEPT ![p] =
              IF id \notin DOMAIN posts
              THEN Status([Idle EXCEPT !.op = "postLike"], 404)
              ELSE [r EXCEPT !.pc = "update",
                             !.likes = Toggle(posts[id].likes, userId)]]
    /\ UNCHANGED store

UpdateRecomputed(r, stored) == Toggle(stored, r.userid)

\* The array the UPDATE stores ($1): the one the handler computed from its
\* own read, whatever the row holds by now.
UpdateValue(r, stored) == r.likes

\* Second statement: UPDATE posts SET likes = $1 WHERE id = $2 RETURNING *,
\* then res.json(updated.rows[0]).
PostLikeWrite(p) ==
    /\ reqs[p].op = "postLike" /\ reqs[p].pc = "update"
    /\ LET r == reqs[p]
           id == r.id
       IN IF id \in DOMAIN posts
          THEN LET likes == UpdateValue(r, posts[id].likes)
               IN /\ posts' = [posts EXCEPT ![id].likes = likes]
                  /\ reqs' = [reqs EXCEPT ![p] =
                         Json([Idle EXCEPT !.op = "postLike"],
                              [id |-> id, user_id |-> posts[id].user_id,
                               likes |-> likes])]
          ELSE /\ posts' = posts
               /\ reqs' = [reqs EXCEPT ![p] =
                      Json([Idle EXCEPT !.op = "postLike"], NoRow)]
    /\ UNCHANGED <<postSeq, comments, commentSeq, comment_likes, notifications>>

\* The users liking a comment (json_agg(cl.userid) over its comment_likes rows).
LikesOf(id) == {l.userid : l \in {x \in comment_likes : x.comment_id = id}}

\* PUT /api/comments/:id/like, first statement: SELECT * FROM comment_likes
\* WHERE comment_id = $1 AND userid = $2.
CommentLikeSelect(p, id, userId) ==
    /\ Free(p)
    /\ reqs' = [reqs EXCEPT ![p] =
           [Idle EXCEPT !.op = "commentLike", !.pc = "write", !.id = id,
                        !.userid = userId,
                        !.exists = ([comment_id |-> id, userid |-> userId]
                                        \in comment_likes)]]
    /\ UNCHANGED store

\* INSERT INTO comment_likes ... ON CONFLICT DO NOTHING under
\* UNIQUE (comment_id, userid): the row is added unless the pair is there.
InsertLike(rows, id, userId) ==
    IF [comment_id |-> id, userid |-> userId] \in rows THEN rows
    ELSE rows \cup {[comment_id |-> id, userid |-> userId]}
DeleteLikesOfComment(rows, id, userId) == {l \in rows : l.comment_id # id}
\* DELETE FROM comment_likes WHERE comment_id = $1 AND userid = $2.
DeleteLike(rows, id, userId) == rows \ {[comment_id |-> id, userid |-> userId]}
\* comment_id REFERENCES comments(id): a new row must name a stored comment.
LikeFkOk(id) == id \in DOMAIN comments

\* Second statement: the DELETE or the INSERT, chosen by the first one's result.
CommentLikeWrite(p) ==
    /\ reqs[p].op = "commentLike" /\ reqs[p].pc = "write"
    /\ LET r == reqs[p]
           rows == IF r.exists THEN DeleteLike(comment_likes, r.id, r.userid)
                   ELSE InsertLike(comment_likes, r.id, r.userid)
           ok == rows \subseteq comment_likes \/ LikeFkOk(r.id)
       IN /\ comment_likes' = IF ok THEN rows ELSE comment_likes
          /\ reqs' = [reqs EXCEPT ![p] =
                 IF ok THEN [r EXCEPT !.pc = "return"]
                 ELSE Throw([Idle EXCEPT !.op = "commentLike"], "foreign_key")]
    /\ UNCHANGED <<posts, postSeq, comments, commentSeq, notifications>>

\* Third statement: SELECT the comment with its aggregated likes, then
\* res.json(comment.rows[0]).
CommentLikeReturn(p) ==
    /\ reqs[p].op = "commentLike" /\ reqs[p].pc = "return"
    /\ LET r == reqs[p]
           row == IF r.id \in DOMAIN comments
                  THEN [id |-> r.id, postid |-> comments[r.id].postid,
                        userid |-> comments[r.id].userid,
                        parent_id |-> comments[r.id].parent_id,
                        createdat |-> comments[r.id].createdat,
                        likes |-> LikesOf(r.id)]
                  ELSE NoRow
       IN reqs' = [reqs EXCEPT ![p] =
              Json([Idle EXCEPT !.op = "commentLike"], row)]
    /\ UNCHANGED store

\* ------------------------------------------------------- history of toggles
\* What the claims about toggles need to remember of the past.  These
\* formulas only observe the handlers: they read the store and the slots and
\* write the history variables.
\*
\* A window records a run of toggle requests by one user on one target that
\* ran one after the other with no statement of another toggle on the target
\* in between: the like set before the first of them, how many have
\* completed (n), and what the second one returned (ret).
WinBegin(w, p, u, members) ==
    IF w.owner = 0 /\ w.n = 1 /\ w.user = u THEN [w EXCEPT !.owner = p]
    ELSE [owner |-> p, user |-> u, before |-> members, n |-> 0, ret |-> {}]
WinStep(w, p) == IF w.owner = p THEN w ELSE NoWin
WinEnd(w, p, ret) ==
    IF w.owner = p
    THEN [w EXCEPT !.owner = 0, !.n = w.n + 1, !.ret = IF w.n = 1 THEN ret ELSE {}]
    ELSE NoWin

SymDiff(S, u) == IF u \in S THEN S \ {u} ELSE S \cup {u}

PostLikeBusy(p, id) ==
    \E q \in Procs \ {p} :
        reqs[q].op = "postLike" /\ reqs[q].id = id /\ InFlight(reqs[q])
PostLikeSameUser(p, id, userId) ==
    \E q \in Procs \ {p} :
        /\ reqs[q].op = "postLike" /\ reqs[q].id = id /\ InFlight(reqs[q])
        /\ reqs[q].userid = userId
CommentLikeBusy(p, id) ==
    \E q \in Procs \ {p} :
        reqs[q].op = "commentLike" /\ reqs[q].id = id /\ InFlight(reqs[q])
CommentLikeSameUser(p, id, userId) ==
    \E q \in Procs \ {p} :
        /\ reqs[q].op = "commentLike" /\ reqs[q].id = id /\ InFlight(reqs[q])
        /\ reqs[q].userid = userId

\* An episode of a target: the toggle requests that overlap one another,
\* from a request that starts with no other in flight.  base is the like set
\* when it began, users who toggled, n how many requests (3 stands for
\* more), serial the like set that running the episode's requests one after
\* the other gives, sameUser whether two requests of one user overlapped,
\* absent whether a request was issued while the target was not stored.
Episode(e, u, members, busy, same, stored) ==
    IF ~busy
    THEN [base |-> members, users |-> {u}, n |-> 1, serial |-> SymDiff(members, u),
          sameUser |-> FALSE, absent |-> ~stored]
    ELSE [base |-> e.base, users |-> e.users \cup {u},
          n |-> IF e.n < 3 THEN e.n + 1 ELSE 3, serial |-> SymDiff(e.serial, u),
          sameUser |-> e.sameUser \/ same, absent |-> e.absent \/ ~stored]

WinPostRead(p, id, u) ==
    /\ winP' = [winP EXCEPT ![id] =
           IF id \in DOMAIN posts
           THEN WinBegin(winP[id], p, u, Range(posts[id].likes))
           ELSE NoWin]
    /\ UNCHANGED <<winC, epP, epC>>

WinPostWrite(p) ==
    LET id == reqs[p].id
        body == reqs'[p].body
    IN /\ winP' = [winP EXCEPT ![id] =
              IF body.id = Null THEN NoWin
              ELSE WinEnd(winP[id], p, Range(body.likes))]
       /\ UNCHANGED <<winC, epP, epC>>

WinCommentSelect(p, id, u) ==
    /\ winC' = [winC EXCEPT ![id] =
           WinBegin(winC[id], p, u, LikesOf(id))]
    /\ UNCHANGED <<winP, epP, epC>>

WinCommentWrite(p) ==
    LET id == reqs[p].id
    IN /\ winC' = [winC EXCEPT ![id] =
              IF reqs'[p].pc = "error" THEN NoWin ELSE WinStep(winC[id], p)]
       /\ UNCHANGED <<winP, epP, epC>>

WinCommentReturn(p) ==
    LET id == reqs[p].id
        body == reqs'[p].body
    IN /\ winC' = [winC EXCEPT ![id] =
              IF body.id = Null THEN NoWin ELSE WinEnd(winC[id], p, body.likes)]
       /\ UNCHANGED <<winP, epP, epC>>

EpPostRead(p, id, u) ==
    /\ epP' = [epP EXCEPT ![id] =
           IF id \in DOMAIN posts
           THEN Episode(epP[id], u, Range(posts[id].likes), PostLikeBusy(p, id),
                        PostLikeSameUser(p, id, u), TRUE)
           ELSE epP[id]]
    /\ UNCHANGED <<winP, winC, epC>>

EpCommentSelect(p, id, u) ==
    /\ epC' = [epC EXCEPT ![id] =
           Episode(epC[id], u, LikesOf(id), CommentLikeBusy(p, id),
                   CommentLikeSameUser(p, id, u), id \in DOMAIN comments)]
    /\ UNCHANGED <<winP, winC, epP>>

\* ------------------------------------------------------------------ fetches
\* A query-string value is a string, written as the sequence of its
\* characters; a missing one is undefined, which parseInt turns into the
\* word "undefined" (one symbol stands for the word here).
Chars == {"-", "0", "1", "2", "a"}
MaxQueryLen == 2
Absent == <<"undefined">>
QueryStrings == UNION {[1..n -> Chars] : n \in 0..MaxQueryLen}
QueryInputs == {Absent} \cup QueryStrings

IsDigit(c) == c \in {"0", "1", "2"}
DigitValue(c) == CASE c = "0" -> 0 [] c = "1" -> 1 [] c = "2" -> 2

\* The value of the run of digits of s that starts at position i.
RECURSIVE DigitsFrom(_, _, _)
DigitsFrom(s, i, acc) ==
    IF i > Len(s) \/ ~IsDigit(s[i]) THEN acc
    ELSE DigitsFrom(s, i + 1, acc * 10 + DigitValue(s[i]))

\* parseInt(s, 10): an optional sign, then the longest run of digits; what
\* follows the digits is ignored; NaN when there is no digit.
ParseInt(s) ==
    LET neg == Len(s) >= 1 /\ s[1] = "-"
        start == IF neg THEN 2 ELSE 1
    IN IF start <= Len(s) /\ IsDigit(s[start])
       THEN [nan |-> FALSE,
             val |-> IF neg THEN 0 - DigitsFrom(s, start, 0)
                     ELSE DigitsFrom(s, start, 0)]
       ELSE [nan |-> TRUE, val |-> 0]

DefaultLimit == 20
DefaultOffset == 0
\* parseInt(...) || d: NaN and 0 are falsy, every other number is kept.
OrDefault(n, d) == IF n.nan \/ n.val = 0 THEN d ELSE n.val

\* A comments row with its aggregated likes, as the three fetch queries and
\* the comment-like handler select it.
Row(c) ==
    [id |-> c, postid |-> comments[c].postid, userid |-> comments[c].userid,
     parent_id |-> comments[c].parent_id, createdat |-> comments[c].createdat,
     likes |-> LikesOf(c)]

\* ORDER BY c.createdat ASC over the rows with ids S: any order of them in
\* which createdat never decreases (rows with equal createdat come in an
\* order the store is free to choose, at every query anew).
Orders(S) ==
    {s \in [1..Cardinality(S) -> S] :
        \A i, j \in 1..Cardinality(S) :
            i < j => /\ s[i] # s[j]
                     /\ comments[s[i]].createdat <= comments[s[j]].createdat}
Rows(ids) == [i \in 1..Len(ids) |-> Row(ids[i])]

\* LIMIT $2 OFFSET $3 of an ordered result.
Page(rows, limit, offset) ==
    SubSeq(rows, offset + 1,
           IF offset + limit < Len(rows) THEN offset + limit ELSE Len(rows))

\* c.replies = [...]: the row with its replies property.
WithReplies(row, replies) ==
    [id |-> row.id, postid |-> row.postid, userid |-> row.userid,
     parent_id |-> row.parent_id, createdat |-> row.createdat,
     likes |-> row.likes, replies |-> replies]

\* WHERE c.postid = $1 AND c.parent_id IS NULL.
TopLevelIds(postId) ==
    {c \in DOMAIN comments :
        comments[c].postid = postId /\ comments[c].parent_id = Null}

\* GET /api/comments/:postId, up to the first SELECT and the test on its
\* result: the coercion of limit and offset, the page of top-level comments.
\* The store rejects a negative LIMIT or OFFSET.
FetchTop(p, postId, qlimit, qoffset) ==
    /\ Free(p)
    /\ LET limit == OrDefault(ParseInt(qlimit), DefaultLimit)
           offset == OrDefault(ParseInt(qoffset), DefaultOffset)
           r == [Idle EXCEPT !.op = "fetchPage", !.postid = postId,
                             !.qlimit = qlimit, !.qoffset = qoffset,
                             !.limit = limit, !.offset = offset,
                             !.seen = [seq |-> commentSeq, ids |-> DOMAIN comments]]
       IN IF limit < 0 \/ offset < 0
          THEN reqs' = [reqs EXCEPT ![p] = Throw(r, "store")]
          ELSE \E ids \in Orders(TopLevelIds(postId)) :
                   LET top == Page(Rows(ids), limit, offset)
                   IN reqs' = [reqs EXCEPT ![p] =
                          IF top = <<>>
                          THEN [r EXCEPT !.pc = "done", !.status = 200]
                          ELSE [r EXCEPT !.pc = "replies", !.top = top]]
    /\ UNCHANGED store

AttachAll(c, replies) == replies
\* replies.forEach: the replies pushed to the element with their parent_id.
Attach(c, replies) == SelectSeq(replies, LAMBDA r : r.parent_id = c.id)

\* The second SELECT (WHERE c.parent_id = ANY(topIds)), the nesting of its
\* rows under the top-level rows, and res.json(topLevelComments).
FetchReplies(p) ==
    /\ reqs[p].op = "fetchPage" /\ reqs[p].pc = "replies"
    /\ LET r == reqs[p]
           topIds == {r.top[i].id : i \in DOMAIN r.top}
       IN \E ids \in Orders({c \in DOMAIN comments : comments[c].parent_id \in topIds}) :
              LET replies == Rows(ids)
              IN reqs' = [reqs EXCEPT ![p] =
                     [r EXCEPT !.pc = "done", !.status = 200,
                               !.rows = [i \in DOMAIN r.top |->
                                   WithReplies(r.top[i], Attach(r.top[i], replies))]]]
    /\ UNCHANGED store

\* Full thread: the node of row c, with the rows whose parent_id is c's id
\* pushed to its replies in the order of the result, each a node itself.
RECURSIVE Node(_, _)
Node(all, c) ==
    LET children == SelectSeq(all, LAMBDA r : r.parent_id = c.id)
    IN WithReplies(c, [i \in DOMAIN children |-> Node(all, children[i])])

TreeOfAll(all) == [i \in DOMAIN all |-> Node(all, all[i])]
\* tree: the rows with a falsy parent_id, in the order of the result.
Tree(all) ==
    LET roots == SelectSeq(all, LAMBDA c : ~TruthyId(c.parent_id))
    IN [i \in DOMAIN roots |-> Node(all, roots[i])]

\* GET /api/comments/unlimited/:postId: one SELECT (WHERE c.postid = $1),
\* the forest built from its rows, res.json(tree).
FetchThread(p, postId) ==
    /\ Free(p)
    /\ \E ids \in Orders({c \in DOMAIN comments : comments[c].postid = postId}) :
           reqs' = [reqs EXCEPT ![p] =
               [Idle EXCEPT !.op = "fetchThread", !.pc = "done", !.status = 200,
                            !.postid = postId, !.rows = Tree(Rows(ids))]]
    /\ UNCHANGED store

InboxLive(user_id) ==
    {i \in DOMAIN notifications :
        notifications[i].user_id = user_id
            /\ notifications[i].comment_id \in DOMAIN comments}
\* SELECT * FROM notifications WHERE user_id = $1: the ids of the rows.
Inbox(user_id) == {i \in DOMAIN notifications : notifications[i].user_id = user_id}

\* ORDER BY created_at DESC over the rows with ids S: any order of them in
\* which created_at never increases.
NewestFirst(S) ==
    {s \in [1..Cardinality(S) -> S] :
        \A i, j \in 1..Cardinality(S) :
            i < j => /\ s[i] # s[j]
                     /\ notifications[s[i]].created_at >= notifications[s[j]].created_at}

\* GET /api/notifications/:user_id: the user's notifications, most recent
\* first.
GetNotifications(p, user_id) ==
    /\ Free(p)
    /\ \E ids \in NewestFirst(Inbox(user_id)) :
           reqs' = [reqs EXCEPT ![p] =
               [Idle EXCEPT !.op = "getNotifications", !.pc = "done",
                            !.status = 200, !.userid = user_id,
                            !.rows = [i \in DOMAIN ids |->
                                [id |-> ids[i],
                                 user_id |-> notifications[ids[i]].user_id,
                                 type |-> notifications[ids[i]].type,
                                 post_id |-> notifications[ids[i]].post_id,
                                 comment_id |-> notifications[ids[i]].comment_id,
                                 created_at |-> notifications[ids[i]].created_at]]]]
    /\ UNCHANGED store

\* ----------------------------------------------------------- specifications
\* Bounds of the scenarios: how many posts and comments each one creates.
NotifyPosts == 1
NotifyComments == 2
LikePosts == 1
LikeComments == 1

\* Posts, threads of comments and replies, their notifications and the
\* deletions, for every author and parent a request can name.
Next ==
    \E p \in Procs :
        \/ Finish(p) /\ UNCHANGED history
        \/ \E u \in UserInputs :
               postSeq < NotifyPosts /\ CreatePost(p, u) /\ UNCHANGED history
        \/ \E id \in PostIds : DeletePost(p, id) /\ UNCHANGED history
        \/ \E id \in PostInputs, u \in UserInputs, par \in ParentInputs :
               /\ commentSeq < NotifyComments
               /\ CommentInsert(p, id, u, par) /\ UNCHANGED history
        \/ CommentLookup(p) /\ UNCHANGED history
        \/ CommentNotify(p) /\ UNCHANGED history
        \/ \E id \in CommentIds : DeleteComment(p, id) /\ UNCHANGED history

Spec == Init /\ [][Next]_vars

\* The same, with a store that can reject the INSERT of the notification.
NextFault ==
    \/ Next
    \/ \E p \in Procs : CommentNotifyFails(p) /\ UNCHANGED history

SpecFault == Init /\ [][NextFault]_vars

\* Threads over several posts with comment likes, and their deletion.
NextThread ==
    \E p \in Procs :
        \/ Finish(p) /\ UNCHANGED history
        \/ CreatePost(p, "u1") /\ UNCHANGED history
        \/ \E id \in PostIds : DeletePost(p, id) /\ UNCHANGED history
        \/ \E id \in PostIds, par \in {Null} \cup CommentIds :
               CommentInsert(p, id, "u2", par) /\ UNCHANGED history
        \/ CommentLookup(p) /\ UNCHANGED history
        \/ CommentNotify(p) /\ UNCHANGED history
        \/ \E id \in CommentIds : DeleteComment(p, id) /\ UNCHANGED history
        \/ \E id \in CommentIds : CommentLikeSelect(p, id, "u1") /\ UNCHANGED history
        \/ CommentLikeWrite(p) /\ UNCHANGED history
        \/ CommentLikeReturn(p) /\ UNCHANGED history

SpecThread == Init /\ [][NextThread]_vars

\* The like toggles of a post and of a comment by two users, with the
\* deletion of the target, and the runs of serial toggles.
NextLikes ==
    \E p \in Procs :
        \/ Finish(p) /\ UNCHANGED history
        \/ postSeq < LikePosts /\ CreatePost(p, "u1") /\ UNCHANGED history
        \/ \E id \in 1..LikePosts : DeletePost(p, id) /\ UNCHANGED history
        \/ \E id \in 1..LikePosts :
               /\ commentSeq < LikeComments
               /\ CommentInsert(p, id, "u1", Null) /\ UNCHANGED history
        \/ CommentLookup(p) /\ UNCHANGED history
        \/ \E id \in 1..LikeComments : DeleteComment(p, id) /\ UNCHANGED history
        \/ \E id \in 1..LikePosts, u \in Users :
               PostLikeRead(p, id, u) /\ WinPostRead(p, id, u)
        \/ PostLikeWrite(p) /\ WinPostWrite(p)
        \/ \E id \in 1..LikeComments, u \in Users :
               CommentLikeSelect(p, id, u) /\ WinCommentSelect(p, id, u)
        \/ CommentLikeWrite(p) /\ WinCommentWrite(p)
        \/ CommentLikeReturn(p) /\ WinCommentReturn(p)

SpecLikes == Init /\ [][NextLikes]_vars

\* The post-like toggles of one post, with the episodes of overlapping
\* toggles.
NextPostRace ==
    \E p \in Procs :
        \/ Finish(p) /\ UNCHANGED history
        \/ postSeq < LikePosts /\ CreatePost(p, "u1") /\ UNCHANGED history
        \/ \E id \in 1..LikePosts : DeletePost(p, id) /\ UNCHANGED history
        \/ \E id \in 1..LikePosts, u \in Users :
               PostLikeRead(p, id, u) /\ EpPostRead(p, id, u)
        \/ PostLikeWrite(p) /\ UNCHANGED history

SpecPostRace == Init /\ [][NextPostRace]_vars

\* The comment-like toggles of one comment, with the episodes.
NextCommentRace ==
    \E p \in Procs :
        \/ Finish(p) /\ UNCHANGED history
        \/ postSeq < LikePosts /\ CreatePost(p, "u1") /\ UNCHANGED history
        \/ \E id \in 1..LikePosts : DeletePost(p, id) /\ UNCHANGED history
        \/ \E id \in 1..LikePosts :
               /\ commentSeq < LikeComments
               /\ CommentInsert(p, id, "u1", Null) /\ UNCHANGED history
        \/ CommentLookup(p) /\ UNCHANGED history
        \/ \E id \in 1..LikeComments : DeleteComment(p, id) /\ UNCHANGED history
        \/ \E id \in 1..LikeComments, u \in Users :
               CommentLikeSelect(p, id, u) /\ EpCommentSelect(p, id, u)
        \/ CommentLikeWrite(p) /\ UNCHANGED history
        \/ CommentLikeReturn(p) /\ UNCHANGED history

SpecCommentRace == Init /\ [][NextCommentRace]_vars

\* Bounds of the fetch scenarios.
PagePosts == 1
CoerceComments == 1
\* The query-string values of the paging scenario: missing, "1", "2".
PageQueries == {Absent, <<"1">>, <<"2">>}

\* The paginated fetch with every query-string value, one fetch at a time,
\* on a post with a comment.
NextCoerce ==
    \E p \in Procs :
        \/ Finish(p) /\ UNCHANGED history
        \/ postSeq < PagePosts /\ CreatePost(p, "u1") /\ UNCHANGED history
        \/ \E id \in 1..PagePosts :
               /\ commentSeq < CoerceComments
               /\ CommentInsert(p, id, "u1", Null) /\ UNCHANGED history
        \/ CommentLookup(p) /\ UNCHANGED history
        \/ \E id \in 1..PagePosts, ql \in QueryInputs, qo \in QueryInputs :
               /\ \A q \in Procs : reqs[q].op # "fetchPage"
               /\ FetchTop(p, id, ql, qo) /\ UNCHANGED history
        \/ FetchReplies(p) /\ UNCHANGED history

SpecCoerce == Init /\ [][NextCoerce]_vars

\* Pages of a thread whose comments may share their createdat, with
\* deletions between the two statements of a fetch.
NextPages ==
    \E p \in Procs :
        \/ Finish(p) /\ UNCHANGED history
        \/ postSeq < PagePosts /\ CreatePost(p, "u1") /\ UNCHANGED history
        \/ \E id \in 1..PagePosts, par \in {Null} \cup CommentIds,
              at \in Timestamps(commentSeq) :
               CommentInsertAt(p, id, "u1", par, at) /\ UNCHANGED history
        \/ CommentLookup(p) /\ UNCHANGED history
        \/ \E id \in CommentIds : DeleteComment(p, id) /\ UNCHANGED history
        \/ \E id \in 1..PagePosts, ql \in PageQueries, qo \in PageQueries :
               FetchTop(p, id, ql, qo) /\ UNCHANGED history
        \/ FetchReplies(p) /\ UNCHANGED history

SpecPages == Init /\ [][NextPages]_vars

\* Full threads over several posts, with replies whose parent is on another
\* post.
NextForest ==
    \E p \in Procs :
        \/ Finish(p) /\ UNCHANGED history
        \/ CreatePost(p, "u1") /\ UNCHANGED history
        \/ \E id \in PostIds, par \in {Null} \cup CommentIds,
              at \in Timestamps(commentSeq) :
               CommentInsertAt(p, id, "u1", par, at) /\ UNCHANGED history
        \/ CommentLookup(p) /\ UNCHANGED history
        \/ \E id \in CommentIds : DeleteComment(p, id) /\ UNCHANGED history
        \/ \E id \in PostIds : FetchThread(p, id) /\ UNCHANGED history

SpecForest == Init /\ [][NextForest]_vars

\* A thread of comments and replies by two users on a post of one of them.
NextChain ==
    \E p \in Procs :
        \/ Finish(p) /\ UNCHANGED history
        \/ postSeq < NotifyPosts /\ CreatePost(p, "u1") /\ UNCHANGED history
        \/ \E id \in 1..NotifyPosts, u \in Users, par \in {Null} \cup CommentIds :
               CommentInsert(p, id, u, par) /\ UNCHANGED history
        \/ CommentLookup(p) /\ UNCHANGED history
        \/ CommentNotify(p) /\ UNCHANGED history

SpecChain == Init /\ [][NextChain]_vars

\* Notifications of comments and replies, the deletion of what they refer
\* to, and their listing.
NextInbox ==
    \E p \in Procs :
        \/ Finish(p) /\ UNCHANGED history
        \/ postSeq < NotifyPosts /\ CreatePost(p, "u1") /\ UNCHANGED history
        \/ \E id \in PostIds : DeletePost(p, id) /\ UNCHANGED history
        \/ \E id \in 1..NotifyPosts, u \in Users, par \in {Null} \cup CommentIds :
               /\ commentSeq < NotifyComments
               /\ CommentInsert(p, id, u, par) /\ UNCHANGED history
        \/ CommentLookup(p) /\ UNCHANGED history
        \/ \E at \in Timestamps(Len(notifications)) :
               CommentNotifyAt(p, at) /\ UNCHANGED history
        \/ \E id \in CommentIds : DeleteComment(p, id) /\ UNCHANGED history
        \/ \E u \in Users : GetNotifications(p, u) /\ UNCHANGED history

SpecInbox == Init /\ [][NextInbox]_vars

\* ------------------------------------------------------------------- claims
PostQuiet(id) == \A q \in Procs : ~(reqs[q].op = "postLike" /\ reqs[q].id = id
                                     /\ InFlight(reqs[q]))
CommentQuiet(id) == \A q \in Procs : ~(reqs[q].op = "commentLike" /\ reqs[q].id = id
                                        /\ InFlight(reqs[q]))

\* C1: two toggle-like requests by one user on a stored post or comment, run
\* one after the other with no statement of another toggle on the target in
\* between, leave the target's like set equal to the set before the first
\* request, and the second request returns that set.
C1_ToggleTwiceRestores ==
    /\ \A id \in DOMAIN posts :
           winP[id].n = 2 =>
               /\ Range(posts[id].likes) = winP[id].before
               /\ winP[id].ret = winP[id].before
    /\ \A id \in DOMAIN comments :
           winC[id].n = 2 =>
               /\ LikesOf(id) = winC[id].before
               /\ winC[id].ret = winC[id].before

\* C1 witness: a post whose like set was not empty and a comment have both
\* been toggled twice in a row by one user.
C1_Witness ==
    /\ \E id \in DOMAIN posts : winP[id].n = 2 /\ winP[id].before # {}
    /\ \E id \in DOMAIN comments : winC[id].n = 2

\* C2: when two post-like requests by different users on one post have both
\* read the likes array before either wrote it, then once both have written,
\* the stored array holds the toggle of exactly one of them applied to the
\* array they read: the other toggle is lost.
C2_RaceLosesOneToggle ==
    \A id \in DOMAIN posts :
        (PostQuiet(id) /\ epP[id].n = 2 /\ Cardinality(epP[id].users) = 2) =>
            /\ \E u \in epP[id].users :
                   Range(posts[id].likes) = SymDiff(epP[id].base, u)
            /\ Range(posts[id].likes) # epP[id].serial

\* C2 witness: both racing requests have written and the post is stored.
C2_Witness ==
    \E id \in DOMAIN posts :
        /\ PostQuiet(id) /\ epP[id].n = 2 /\ Cardinality(epP[id].users) = 2
        /\ Range(posts[id].likes) # epP[id].serial

\* C3: after overlapping comment-like requests by different users on one
\* stored comment, however their statements interleave, the comment's like
\* set is the one that running the requests one after the other gives.
C3_CommentTogglesSerializable ==
    \A id \in DOMAIN comments :
        (CommentQuiet(id) /\ ~epC[id].sameUser /\ ~epC[id].absent) =>
            LikesOf(id) = epC[id].serial

\* C3 witness: two overlapping requests by different users have completed on
\* a comment that had a like before.
C3_Witness ==
    \E id \in DOMAIN comments :
        /\ CommentQuiet(id) /\ epC[id].n = 2 /\ Cardinality(epC[id].users) = 2
        /\ ~epC[id].absent /\ epC[id].base # {}

\* The comments a delete of id is to remove: those whose chain of parent_id
\* links, followed upwards, passes through id.
RECURSIVE UpChain(_)
UpChain(c) ==
    IF c \notin DOMAIN comments THEN {}
    ELSE {c} \cup UpChain(comments[c].parent_id)
SubtreeOf(id) == {c \in DOMAIN comments : id \in UpChain(c)}

\* The step in which slot p runs the delete-comment request of id.
DeleteCommentStep(p, id) ==
    /\ reqs[p].pc = "idle"
    /\ reqs'[p].op = "deleteComment" /\ reqs'[p].id = id

\* C4: delete-comment(id) on a stored comment removes, in one step, exactly
\* id and every comment reachable from it through parent_id links at any
\* depth; every other comment is left as it was.
C4_DeleteRemovesExactlySubtree ==
    [][\A p \in Procs, id \in CommentIds :
          (DeleteCommentStep(p, id) /\ id \in DOMAIN comments) =>
              /\ DOMAIN comments' = DOMAIN comments \ SubtreeOf(id)
              /\ \A c \in DOMAIN comments' : comments'[c] = comments[c]]_vars

\* C4 witness: a delete has removed a comment together with replies below
\* it, and a comment outside the subtree is still stored.
C4_Witness ==
    \E p \in Procs :
        /\ reqs[p].op = "deleteComment" /\ reqs[p].pc = "done"
        /\ Cardinality(reqs[p].deleted) >= 2
        /\ DOMAIN comments # {}

\* C5: delete-comment on an id that names no stored comment answers 204
\* and leaves comments, comment likes, posts and notifications unchanged.
C5_DeleteMissingIsNoOp ==
    [][\A p \in Procs, id \in CommentIds :
          (DeleteCommentStep(p, id) /\ id \notin DOMAIN comments) =>
              /\ reqs'[p].pc = "done" /\ reqs'[p].status = 204
              /\ UNCHANGED <<comments, comment_likes, posts, notifications>>]_vars

\* C5 witness: a delete of an id handed out earlier and no longer stored has
\* been answered 204 while comments, likes and notifications are stored.
C5_Witness ==
    \E p \in Procs :
        /\ reqs[p].op = "deleteComment" /\ reqs[p].pc = "done"
        /\ reqs[p].deleted = {} /\ reqs[p].id <= commentSeq
        /\ reqs[p].status = 204
        /\ DOMAIN comments # {} /\ comment_likes # {} /\ notifications # <<>>

\* The notifications that reference comment id.
NotifsFor(id) == {i \in DOMAIN notifications : notifications[i].comment_id = id}
\* Recipient, type and references of the i-th notification.
Sent(i) ==
    [user_id |-> notifications[i].user_id, type |-> notifications[i].type,
     post_id |-> notifications[i].post_id, comment_id |-> notifications[i].comment_id]

CreateDone(r) == r.op = "createComment" /\ r.pc = "done"
\* The handler has ended after inserting its comment: it answered, or the
\* INSERT of the notification threw.
CreateEnded(r) ==
    \/ CreateDone(r)
    \/ r.op = "createComment" /\ r.pc = "error" /\ r.err = "notification"

\* C6 as stated: for a completed create-comment with parentId null on a post
\* found by the handler, no notification is created iff the post's author
\* equals the commenter; otherwise exactly one, of type "comment", to the
\* post's author, referencing the post and the new comment.
C6_TopLevelNotifiesUnlessSelf ==
    \A p \in Procs :
        (CreateDone(reqs[p]) /\ reqs[p].parent_id = Null /\ reqs[p].found) =>
            LET r == reqs[p]
                ns == NotifsFor(r.comment.id)
            IN /\ (ns = {}) <=> (r.author = r.userid)
               /\ ns # {} =>
                      /\ Cardinality(ns) = 1
                      /\ \A i \in ns : Sent(i) =
                             [user_id |-> r.author, type |-> "comment",
                              post_id |-> r.postid, comment_id |-> r.comment.id]

\* C6 as amended: no notification is created iff the post's author equals
\* the commenter or the post's author is the empty user id; otherwise
\* exactly one, as above.  The author is the one the stored post has.
C6_TopLevelNotifiesUnlessSelfOrNoAuthor ==
    \A p \in Procs :
        (CreateDone(reqs[p]) /\ reqs[p].parent_id = Null /\ reqs[p].found) =>
            LET r == reqs[p]
                ns == NotifsFor(r.comment.id)
            IN /\ r.postid \in DOMAIN posts => r.author = posts[r.postid].user_id
               /\ (ns = {}) <=> (r.author = r.userid \/ r.author = NoUser)
               /\ ns # {} =>
                      /\ Cardinality(ns) = 1
                      /\ \A i \in ns : Sent(i) =
                             [user_id |-> r.author, type |-> "comment",
                              post_id |-> r.postid, comment_id |-> r.comment.id]

\* C6 witness: a top-level comment on another user's post has completed
\* with its one notification.
C6_Witness ==
    \E p \in Procs :
        /\ CreateDone(reqs[p]) /\ reqs[p].parent_id = Null /\ reqs[p].found
        /\ reqs[p].author \in Users /\ reqs[p].author # reqs[p].userid
        /\ Cardinality(NotifsFor(reqs[p].comment.id)) = 1

\* C7 as stated: for a create-comment with a non-null parentId, once ended, no
\* notification is created iff the parent comment's author equals the
\* commenter or the parent comment does not exist; otherwise exactly one, of
\* type "reply", to the parent comment's author.
C7_ReplyNotifiesParentAuthor ==
    \A p \in Procs :
        (CreateEnded(reqs[p]) /\ reqs[p].parent_id # Null) =>
            LET r == reqs[p]
                ns == NotifsFor(r.comment.id)
                parentExists == TruthyId(r.parent_id) /\ r.found
            IN /\ (ns = {}) <=> (~parentExists \/ r.author = r.userid)
               /\ ns # {} =>
                      /\ Cardinality(ns) = 1
                      /\ \A i \in ns : Sent(i) =
                             [user_id |-> r.author, type |-> "reply",
                              post_id |-> r.postid, comment_id |-> r.comment.id]

\* C7 as amended: for a create-comment that names a post and has a parentId
\* that is neither null nor 0, once ended, no notification is created iff the
\* parent comment's author equals the commenter, or is the empty user id, or
\* the parent comment does not exist; otherwise exactly one, of type "reply",
\* to the parent comment's author (the one the stored parent has).
C7_TruthyParentNotifiesParentAuthor ==
    \A p \in Procs :
        (CreateEnded(reqs[p]) /\ reqs[p].postid # Null
             /\ TruthyId(reqs[p].parent_id)) =>
            LET r == reqs[p]
                ns == NotifsFor(r.comment.id)
            IN /\ r.parent_id \in DOMAIN comments =>
                      r.found /\ r.author = comments[r.parent_id].userid
               /\ (ns = {}) <=> (~r.found \/ r.author = r.userid \/ r.author = NoUser)
               /\ ns # {} =>
                      /\ Cardinality(ns) = 1
                      /\ \A i \in ns : Sent(i) =
                             [user_id |-> r.author, type |-> "reply",
                              post_id |-> r.postid, comment_id |-> r.comment.id]

\* C7 witness: a reply to another user's comment, on a post of a third
\* author, has completed with its one "reply" notification.
C7_Witness ==
    \E p \in Procs :
        /\ CreateDone(reqs[p]) /\ TruthyId(reqs[p].parent_id) /\ reqs[p].found
        /\ reqs[p].author \in Users /\ reqs[p].author # reqs[p].userid
        /\ reqs[p].postid \in DOMAIN posts
        /\ posts[reqs[p].postid].user_id # reqs[p].author
        /\ \E i \in NotifsFor(reqs[p].comment.id) : notifications[i].type = "reply"

\* The step in which slot p inserts its notification.
NotifyStep(p) ==
    /\ reqs[p].op = "createComment" /\ reqs[p].pc = "notify"
    /\ reqs'[p].pc = "done"
    /\ Len(notifications') = Len(notifications) + 1

\* C8: at most one notification references any comment id, and the
\* notifications change only by a create-comment appending one row.
C8_AtMostOneNotificationPerComment ==
    /\ [](\A id \in CommentIds : Cardinality(NotifsFor(id)) <= 1)
    /\ [][notifications' # notifications =>
              /\ \E p \in Procs : NotifyStep(p)
              /\ SubSeq(notifications', 1, Len(notifications)) = notifications]_vars

\* C8 witness: two notifications are stored, one of them for a comment that
\* has since been deleted.
C8_Witness ==
    /\ Len(notifications) >= 2
    /\ \E i \in DOMAIN notifications : notifications[i].comment_id \notin DOMAIN comments

\* C9: no notification goes to the author of the comment whose creation
\* produced it.
C9_NoSelfNotification ==
    /\ [](\A i \in DOMAIN notifications :
              notifications[i].comment_id \in DOMAIN comments =>
                  comments[notifications[i].comment_id].userid
                      # notifications[i].user_id)
    /\ [][\A p \in Procs : NotifyStep(p) =>
              LET row == notifications'[Len(notifications')]
              IN /\ row.comment_id = reqs[p].comment.id
                 /\ row.user_id # reqs[p].userid]_vars

\* C9 witness: a reply to the commenter's own comment has completed without
\* a notification, on a post of another author.
C9_Witness ==
    \E p \in Procs :
        /\ CreateDone(reqs[p]) /\ TruthyId(reqs[p].parent_id) /\ reqs[p].found
        /\ reqs[p].userid \in Users /\ reqs[p].author = reqs[p].userid
        /\ NotifsFor(reqs[p].comment.id) = {}
        /\ reqs[p].postid \in DOMAIN posts
        /\ posts[reqs[p].postid].user_id \in Users \ {reqs[p].userid}

\* C10: when the INSERT of the notification fails, the comment stays stored
\* and is still returned to the caller.
C10_CommentReturnedWhenNotificationFails ==
    \A p \in Procs :
        (reqs[p].op = "createComment" /\ reqs[p].pc = "error"
             /\ reqs[p].err = "notification") =>
            /\ reqs[p].status = 200
            /\ reqs[p].body = reqs[p].comment

\* C11: a toggle-like request whose target is not stored ends with 404 and
\* changes no row.  For the post toggle the target is missing at its first
\* statement (no post of the scenario is stored); for the comment toggle it
\* is missing when the handler ends.
C11_ToggleOnMissingTargetIsNotFound ==
    [][\A p \in Procs :
           /\ (/\ reqs[p].pc = "idle" /\ reqs'[p].op = "postLike"
               /\ \A id \in 1..LikePosts : id \notin DOMAIN posts)
                  => /\ reqs'[p].pc = "done" /\ reqs'[p].status = 404
                     /\ store' = store
           /\ (/\ reqs[p].op = "commentLike" /\ InFlight(reqs[p])
               /\ reqs[p].id \notin DOMAIN comments
               /\ reqs'[p].pc \in {"done", "error"})
                  => /\ reqs'[p].pc = "done" /\ reqs'[p].status = 404
                     /\ store' = store]_vars

\* C15: the stored likes array of every post holds no user id twice, whatever
\* the interleaving of the toggles' reads and writes.
C15_PostLikesHaveNoDuplicates ==
    \A id \in DOMAIN posts :
        \A i, j \in DOMAIN posts[id].likes :
            i # j => posts[id].likes[i] # posts[id].likes[j]

\* C15 witness: two toggles of one user overlapped on a post another user
\* likes, and the array now holds both users.
C15_Witness ==
    \E id \in DOMAIN posts :
        /\ epP[id].sameUser /\ PostQuiet(id)
        /\ Len(posts[id].likes) = 2

\* C16: after two overlapping comment-like requests by one user on one
\* stored comment, however their statements interleave, the comment's like
\* set is the one before both requests (what running them one after the
\* other gives).
C16_SameUserTogglesRaceSafe ==
    \A id \in DOMAIN comments :
        (/\ CommentQuiet(id) /\ epC[id].n = 2 /\ epC[id].sameUser
         /\ ~epC[id].absent) =>
            /\ epC[id].serial = epC[id].base
            /\ LikesOf(id) = epC[id].base

\* C17: no dangling reference is ever stored: every comment's non-null
\* parent_id names a stored comment and every comment_likes row names a
\* stored comment.
C17_NoDanglingReferences ==
    /\ \A c \in DOMAIN comments :
           comments[c].parent_id # Null => comments[c].parent_id \in DOMAIN comments
    /\ \A l \in comment_likes : l.comment_id \in DOMAIN comments

\* C17 witness: a delete-comment has removed rows while a reply and a like
\* stay stored.
C17_Witness ==
    /\ \E p \in Procs :
           reqs[p].op = "deleteComment" /\ reqs[p].pc = "done" /\ reqs[p].deleted # {}
    /\ \E c \in DOMAIN comments : comments[c].parent_id # Null
    /\ comment_likes # {}

\* A query-string value that is missing or does not begin with a number (an
\* optional minus sign, then a digit).
NonNumeric(s) ==
    \/ s = Absent
    \/ s = <<>>
    \/ ~IsDigit(s[1]) /\ ~(s[1] = "-" /\ Len(s) >= 2 /\ IsDigit(s[2]))

\* C12: whatever limit and offset a paginated fetch is given, the values it
\* hands to the store are non-negative integers, a missing or non-numeric
\* limit becomes 20 and a missing or non-numeric offset becomes 0, and the
\* fetch does not fail.
C12_LimitOffsetCoercedNonNegative ==
    \A p \in Procs :
        reqs[p].op = "fetchPage" =>
            /\ reqs[p].limit >= 0 /\ reqs[p].offset >= 0
            /\ NonNumeric(reqs[p].qlimit) => reqs[p].limit = DefaultLimit
            /\ NonNumeric(reqs[p].qoffset) => reqs[p].offset = DefaultOffset
            /\ reqs[p].pc # "error"

IdsOf(rows) == {rows[i].id : i \in DOMAIN rows}
\* The first SELECT of a paginated fetch has run.
PageRead(r) == r.op = "fetchPage" /\ r.pc \in {"replies", "done"}
\* Nothing has been written to the comments since the fetch's first SELECT.
Unwritten(r) == r.seen = [seq |-> commentSeq, ids |-> DOMAIN comments]

\* C13: with no write in between, the pages (limit L, offset 0) and
\* (limit L, offset L) of a post hold disjoint sets of top-level comments,
\* and one after the other they are the first 2L top-level comments of the
\* post (all of them if there are fewer) in ascending creation order.
C13_PagesDisjointAndCoverFirst2L ==
    \A p, q \in Procs :
        (/\ PageRead(reqs[p]) /\ PageRead(reqs[q])
         /\ reqs[p].postid = reqs[q].postid
         /\ Unwritten(reqs[p]) /\ Unwritten(reqs[q])
         /\ reqs[p].limit = reqs[q].limit
         /\ reqs[p].offset = 0 /\ reqs[q].offset = reqs[p].limit) =>
            LET T == TopLevelIds(reqs[p].postid)
                both == reqs[p].top \o reqs[q].top
                n == IF 2 * reqs[p].limit < Cardinality(T)
                     THEN 2 * reqs[p].limit ELSE Cardinality(T)
            IN /\ IdsOf(reqs[p].top) \cap IdsOf(reqs[q].top) = {}
               /\ \E s \in Orders(T) :
                      [i \in DOMAIN both |-> both[i].id] = SubSeq(s, 1, n)

\* C20: a paginated fetch answers with top-level comments of the requested
\* post only, each with exactly the comments stored with its id as their
\* parent_id as replies (stored when the second SELECT runs), in ascending
\* creation order and once each, and no reply has replies of its own.
C20_PagedThreadNestsOneLevel ==
    [][\A p \in Procs :
           (reqs'[p].op = "fetchPage" /\ reqs'[p].pc = "done"
                /\ reqs[p].pc # "done") =>
               LET r == reqs'[p]
               IN \A i \in DOMAIN r.rows :
                      LET e == r.rows[i]
                      IN /\ e.id \in r.seen.ids
                         /\ e.postid = r.postid /\ e.parent_id = Null
                         /\ IdsOf(e.replies) =
                                {c \in DOMAIN comments : comments[c].parent_id = e.id}
                         /\ \A j, k \in DOMAIN e.replies :
                                j < k => /\ e.replies[j].id # e.replies[k].id
                                         /\ e.replies[j].createdat
                                                <= e.replies[k].createdat
                         /\ \A j \in DOMAIN e.replies :
                                "replies" \notin DOMAIN e.replies[j]]_vars

\* C20 witness: a page has been returned with an element that has a reply,
\* while a reply to that reply is stored.
C20_Witness ==
    \E p \in Procs :
        /\ reqs[p].op = "fetchPage" /\ reqs[p].pc = "done"
        /\ \E i \in DOMAIN reqs[p].rows :
               /\ reqs[p].rows[i].replies # <<>>
               /\ \E c \in DOMAIN comments :
                      comments[c].parent_id \in IdsOf(reqs[p].rows[i].replies)

\* The nodes of a forest, at every depth.
RECURSIVE NodesOf(_)
NodesOf(forest) ==
    UNION {{forest[i]} \cup NodesOf(forest[i].replies) : i \in DOMAIN forest}
\* How many times comment c appears in a forest.
RECURSIVE CountIn(_, _)
CountIn(forest, c) ==
    IF forest = <<>> THEN 0
    ELSE (IF Head(forest).id = c THEN 1 ELSE 0)
             + CountIn(Head(forest).replies, c) + CountIn(Tail(forest), c)
\* The comments of a post.
PostComments(postId) == {c \in DOMAIN comments : comments[c].postid = postId}
\* The step in which slot p answers a full-thread fetch.
ThreadStep(p) == reqs[p].pc = "idle" /\ reqs'[p].op = "fetchThread"
\* What the roots, the order of the replies and the number of appearances
\* have to be, whichever way the replies are characterised.
ForestShape(F, P) ==
    /\ [i \in DOMAIN F |-> F[i].id] \in Orders({c \in P : comments[c].parent_id = Null})
    /\ \A n \in NodesOf(F) :
           \A j, k \in DOMAIN n.replies :
               j < k => n.replies[j].createdat <= n.replies[k].createdat
    /\ \A c \in DOMAIN comments : CountIn(F, c) <= 1
    /\ \A c \in P :
           (comments[c].parent_id # Null /\ comments[c].parent_id \notin P)
               => CountIn(F, c) = 0

\* C19 as stated: the forest of a full-thread fetch has the post's comments
\* with null parent_id as roots in creation order; a comment of the post is
\* among the replies of comment q exactly when its parent_id is q and q is a
\* comment of the post, in creation order; every comment appears at most
\* once; a comment whose parent is not a comment of the post appears nowhere.
C19_ForestReproducesEdges ==
    [][\A p \in Procs :
           ThreadStep(p) =>
               LET F == reqs'[p].rows
                   P == PostComments(reqs'[p].postid)
               IN /\ ForestShape(F, P)
                  /\ \A c \in P, q \in DOMAIN comments :
                         (\E n \in NodesOf(F) : n.id = q /\ c \in IdsOf(n.replies))
                             <=> (comments[c].parent_id = q /\ q \in P)]_vars

\* C19 as amended: the same, with a comment of the post among the replies of
\* comment q exactly when its parent_id is q and q itself appears in the
\* forest.
C19_ForestReproducesReachableEdges ==
    [][\A p \in Procs :
           ThreadStep(p) =>
               LET F == reqs'[p].rows
                   P == PostComments(reqs'[p].postid)
               IN /\ ForestShape(F, P)
                  /\ \A c \in P, q \in DOMAIN comments :
                         (\E n \in NodesOf(F) : n.id = q /\ c \in IdsOf(n.replies))
                             <=> (/\ comments[c].parent_id = q
                                  /\ \E n \in NodesOf(F) : n.id = q)]_vars

\* C19 witness: a full thread has been returned with a reply to a reply in
\* it.
C19_Witness ==
    \E p \in Procs :
        /\ reqs[p].op = "fetchThread" /\ reqs[p].pc = "done"
        /\ \E i \in DOMAIN reqs[p].rows :
               \E j \in DOMAIN reqs[p].rows[i].replies :
                   reqs[p].rows[i].replies[j].replies # <<>>

\* The thread of the scenario: post 1 by u1; comment 1 by u2, top-level;
\* comment 2 by u1, a reply to 1; comment 3 by u2, a reply to 2; and the
\* request that created comment 3 has ended.
ChainBuilt ==
    /\ 1 \in DOMAIN posts /\ posts[1].user_id = "u1"
    /\ DOMAIN comments = {1, 2, 3}
    /\ \A c \in DOMAIN comments : comments[c].postid = 1
    /\ comments[1].userid = "u2" /\ comments[1].parent_id = Null
    /\ comments[2].userid = "u1" /\ comments[2].parent_id = 1
    /\ comments[3].userid = "u2" /\ comments[3].parent_id = 2
    /\ \E p \in Procs : CreateEnded(reqs[p]) /\ reqs[p].comment.id = 3

\* C14 as stated: in the scenario, creating comment 3 adds no notification.
C14_ReplyToReplyAddsNoNotification ==
    ChainBuilt => NotifsFor(3) = {}

\* C14 as amended: in the scenario, creating comment 3 adds exactly one
\* notification, of type "reply", for u1, the author of comment 2.
C14_ReplyToReplyNotifiesParentAuthor ==
    ChainBuilt =>
        /\ Cardinality(NotifsFor(3)) = 1
        /\ \A i \in NotifsFor(3) :
               Sent(i) = [user_id |-> "u1", type |-> "reply",
                         post_id |-> 1, comment_id |-> 3]

\* C14 witness: the scenario has run, and comment 1 has its notification.
C14_Witness ==
    /\ ChainBuilt
    /\ \E i \in NotifsFor(1) : notifications[i].user_id = "u1"

\* The step in which slot p answers a delete-post or a delete-comment.
DeleteStep(p) ==
    reqs[p].pc = "idle" /\ reqs'[p].op \in {"deletePost", "deleteComment"}
\* The step in which slot p answers a listing of notifications.
ListStep(p) == reqs[p].pc = "idle" /\ reqs'[p].op = "getNotifications"

\* C18: a delete-post or delete-comment leaves the notifications unchanged,
\* no step modifies or removes a notification, and the listing of a user
\* returns every notification stored for that user as it is stored, those
\* that refer to a deleted comment or post included.
C18_DeletesKeepNotifications ==
    [][/\ \A p \in Procs : DeleteStep(p) => notifications' = notifications
       /\ Len(notifications') >= Len(notifications)
       /\ SubSeq(notifications', 1, Len(notifications)) = notifications
       /\ \A p \in Procs :
              ListStep(p) =>
                  LET rows == reqs'[p].rows
                  IN /\ IdsOf(rows) = {i \in DOMAIN notifications :
                                          notifications[i].user_id = reqs'[p].userid}
                     /\ \A k \in DOMAIN rows :
                            /\ [user_id |-> rows[k].user_id, type |-> rows[k].type,
                                post_id |-> rows[k].post_id,
                                comment_id |-> rows[k].comment_id,
                                created_at |-> rows[k].created_at]
                                   = notifications[rows[k].id]
                            /\ \A m \in DOMAIN rows : k # m => rows[k].id # rows[m].id]_vars

\* C18 witness: a listing has returned a notification whose comment and post
\* have both been deleted.
C18_Witness ==
    \E p \in Procs :
        /\ reqs[p].op = "getNotifications" /\ reqs[p].pc = "done"
        /\ \E k \in DOMAIN reqs[p].rows :
               /\ reqs[p].rows[k].comment_id \notin DOMAIN comments
               /\ reqs[p].rows[k].post_id \notin DOMAIN posts
====
